---- MODULE Spec2Model ----
(***************************************************************************)
(* nanospline: the rational curve adapter (NURBS.h) and the surface of     *)
(* revolution patch (RevolutionPatch.h) as state machines.                 *)
(*                                                                         *)
(* NURBS scalars are binary floating-point numbers <<m, e>> (value m*2^e,  *)
(* m a signed mantissa of MantissaBits bits, round-to-nearest-even), so    *)
(* that the lift (p*w, w) and the projection x/w round as the code's       *)
(* Scalar arithmetic does.  Patch coordinates are integers in units of     *)
(* 1/2 and angles are whole quarter turns, where sin and cos are exact.    *)
(***************************************************************************)
EXTENDS Integers, Sequences, FiniteSets, TLC

VARIABLES
    ndebug,                 \* build configuration: TRUE when assert() is compiled out
    m_control_points,       \* NURBS: Base::m_control_points, a sequence of points
    m_weights,              \* NURBS: m_weights
    m_knots,                \* NURBS: Base::m_knots
    m_bspline_homogeneous,  \* NURBS: the cached homogeneous curve [cp, knots]
    nurbs_call,             \* NURBS: the last call, its arguments and its outcome
    derivations,            \* NURBS: calls so far that derived one representation from the other
    m_location,             \* RevolutionPatch: m_location
    m_frame,                \* RevolutionPatch: m_frame (three rows)
    m_profile,              \* RevolutionPatch: m_profile (Null or a profile curve)
    m_u_lower, m_u_upper,   \* RevolutionPatch: u bounds
    m_v_lower, m_v_upper,   \* RevolutionPatch: v bounds (quarter turns)
    m_periodic_u,           \* PatchBase::m_periodic_u
    m_periodic_v,           \* PatchBase::m_periodic_v
    patch_call              \* RevolutionPatch: the last call, its arguments and its outcome

nurbsVars == <<m_control_points, m_weights, m_knots, m_bspline_homogeneous, nurbs_call,
               derivations>>
patchVars == <<m_location, m_frame, m_profile, m_u_lower, m_u_upper, m_v_lower,
               m_v_upper, m_periodic_u, m_periodic_v, patch_call>>
vars == <<ndebug, nurbsVars, patchVars>>

(***************************************************************************)
(* Bounds of the model.                                                    *)
(***************************************************************************)
MaxCtrlPts == 2        \* longest control-point / weight vector a setter is given
MaxInsert == 1         \* largest multiplicity given to insert_knot
MaxDerivations == 2    \* initialize, insert_knot and set_homogeneous calls in one run
MantissaBits == 3      \* precision of Scalar in the model

(***************************************************************************)
(* Program constants.                                                      *)
(***************************************************************************)
Dim == 1               \* _dim of the NURBS curve
Degree == 1            \* _degree of the NURBS curve

(***************************************************************************)
(* Scalar arithmetic: correctly rounded binary floating point.             *)
(***************************************************************************)
RECURSIVE Pow2(_)
Pow2(n) == IF n <= 0 THEN 1 ELSE 2 * Pow2(n - 1)

RECURSIVE BitLen(_)
BitLen(a) == IF a <= 0 THEN 0 ELSE 1 + BitLen(a \div 2)

Abs(x) == IF x < 0 THEN -x ELSE x
Sgn(x) == IF x < 0 THEN -1 ELSE 1

Zero == <<0, 0>>
NaN == <<0, 1>>         \* the result of a division by zero

\* The float nearest to N * 2^E, ties to the even mantissa.
RoundTo(N, E) ==
    IF N = 0 THEN Zero
    ELSE LET a == Abs(N)
             b == BitLen(a)
         IN IF b <= MantissaBits
            THEN <<Sgn(N) * a * Pow2(MantissaBits - b), E - (MantissaBits - b)>>
            ELSE LET k == b - MantissaBits
                     q == a \div Pow2(k)
                     r == a % Pow2(k)
                     half == Pow2(k - 1)
                     up == r > half \/ (r = half /\ q % 2 = 1)
                     m == IF up THEN q + 1 ELSE q
                 IN IF m = Pow2(MantissaBits)
                    THEN <<Sgn(N) * Pow2(MantissaBits - 1), E + k + 1>>
                    ELSE <<Sgn(N) * m, E + k>>

F(n) == RoundTo(n, 0)

FMul(x, y) ==
    IF x = NaN \/ y = NaN THEN NaN
    ELSE RoundTo(x[1] * y[1], x[2] + y[2])

\* x / y: the quotient to MantissaBits + 2 bits, a sticky bit for the remainder.
FDiv(x, y) ==
    IF x = NaN \/ y = NaN \/ y = Zero THEN NaN
    ELSE LET G == MantissaBits + 2
             n == Abs(x[1]) * Pow2(G)
             d == Abs(y[1])
             q == n \div d
             s == IF n % d = 0 THEN 0 ELSE 1
         IN RoundTo(Sgn(x[1]) * Sgn(y[1]) * (2 * q + s), x[2] - y[2] - G - 1)

FNeg(x) == IF x = NaN THEN NaN ELSE <<-x[1], x[2]>>

FAdd(x, y) ==
    IF x = NaN \/ y = NaN THEN NaN
    ELSE IF x = Zero THEN y
    ELSE IF y = Zero THEN x
    ELSE LET hi == IF x[2] >= y[2] THEN x ELSE y
             lo == IF x[2] >= y[2] THEN y ELSE x
             sh == hi[2] - lo[2]
         IN IF sh > MantissaBits + 3 THEN hi
            ELSE RoundTo(hi[1] * Pow2(sh) + lo[1], lo[2])

FSub(x, y) == FAdd(x, FNeg(y))


(***************************************************************************)
(* Points are sequences of Scalars; knots are small integers, which the    *)
(* Scalar type represents exactly (F converts them where they are used in  *)
(* arithmetic).                                                            *)
(***************************************************************************)
VAdd(p, q) == [j \in DOMAIN p |-> FAdd(p[j], q[j])]
VSub(p, q) == [j \in DOMAIN p |-> FSub(p[j], q[j])]
VScale(a, p) == [j \in DOMAIN p |-> FMul(a, p[j])]
VDiv(p, a) == [j \in DOMAIN p |-> FDiv(p[j], a)]

\* p.template head<_dim>() and p[_dim] of a homogeneous point.
HeadDim(p) == [j \in 1..Dim |-> p[j]]
LastDim(p) == p[Dim + 1]

(***************************************************************************)
(* The homogeneous B-spline engine (BSpline.h, BSplineBase.h): a curve is  *)
(* [cp, knots]; knots[i] .. knots[i + deg + 1] is the support of cp[i].    *)
(***************************************************************************)
\* BSplineBase::validate_curve: the counts a curve of degree deg needs.
ValidCurve(cp, knots, deg) ==
    /\ Len(cp) >= deg + 1
    /\ Len(knots) = Len(cp) + deg + 1

\* The knot span of t: the last non-empty span starting at or before t,
\* the first non-empty span when t lies before the domain.
Spans(h, deg) ==
    {j \in (deg + 1)..Len(h.cp) : h.knots[j] < h.knots[j + 1]}

FindSpan(h, deg, t) ==
    LET at == {j \in Spans(h, deg) : h.knots[j] <= t}
        pick(S) == CHOOSE j \in S : \A k \in S : k <= j
        first(S) == CHOOSE j \in S : \A k \in S : j <= k
    IN IF at # {} THEN pick(at) ELSE first(Spans(h, deg))

\* de Boor's recurrence: the r-th level point with index i at t.
RECURSIVE DeBoor(_, _, _, _, _)
DeBoor(h, deg, t, i, r) ==
    IF r = 0 THEN h.cp[i]
    ELSE LET a == FDiv(F(t - h.knots[i]), F(h.knots[i + deg + 1 - r] - h.knots[i]))
         IN VAdd(VScale(FSub(F(1), a), DeBoor(h, deg, t, i - 1, r - 1)),
                 VScale(a, DeBoor(h, deg, t, i, r - 1)))

\* BSpline::evaluate
BSplineEvaluate(h, deg, t) == DeBoor(h, deg, t, FindSpan(h, deg, t), deg)

\* The derivative of a degree-deg curve is a curve of degree deg - 1.
DerivativeCurve(h, deg) ==
    [cp |-> [i \in 1..(Len(h.cp) - 1) |->
                VDiv(VScale(F(deg), VSub(h.cp[i + 1], h.cp[i])),
                     F(h.knots[i + deg + 1] - h.knots[i + 1]))],
     knots |-> [i \in 1..(Len(h.knots) - 2) |-> h.knots[i + 1]]]

\* BSpline::evaluate_derivative
BSplineEvaluateDerivative(h, deg, t) ==
    LET j == FindSpan(h, deg, t)
        d == DerivativeCurve(h, deg)
    IN DeBoor(d, deg - 1, t, j - 1, deg - 1)

\* The parameter domain of a valid curve.
InDomain(h, deg, t) ==
    /\ Spans(h, deg) # {}
    /\ h.knots[deg + 1] <= t
    /\ t <= h.knots[Len(h.cp) + 1]

\* BSpline::insert_knot, once (Boehm): the curve it represents is unchanged.
InsertOnce(h, deg, t) ==
    LET j == FindSpan(h, deg, t)
        n == Len(h.cp)
        alpha(i) == FDiv(F(t - h.knots[i]), F(h.knots[i + deg] - h.knots[i]))
    IN [cp |-> [i \in 1..(n + 1) |->
                  IF i <= j - deg THEN h.cp[i]
                  ELSE IF i > j THEN h.cp[i - 1]
                  ELSE VAdd(VScale(FSub(F(1), alpha(i)), h.cp[i - 1]),
                            VScale(alpha(i), h.cp[i]))],
        knots |-> [i \in 1..(Len(h.knots) + 1) |->
                  IF i <= j THEN h.knots[i]
                  ELSE IF i = j + 1 THEN t
                  ELSE h.knots[i - 1]]]

RECURSIVE BSplineInsertKnot(_, _, _, _)
BSplineInsertKnot(h, deg, t, multiplicity) ==
    IF multiplicity <= 0 THEN h
    ELSE BSplineInsertKnot(InsertOnce(h, deg, t), deg, t, multiplicity - 1)


(***************************************************************************)
(* NURBS (NURBS.h).                                                        *)
(***************************************************************************)
\* The values the setters are given.  Weights are strictly positive.
Scalars == {F(5), F(7)}
Sample(i) == IF i % 2 = 0 THEN F(5) ELSE F(7)
UniformKnots(n) == [i \in 1..n |-> 2 * (i - 1)]
MaxKnots == MaxCtrlPts + Degree + 1
\* Two parameters inside the domain of the longest uniform curve: a knot and a midpoint.
Params == {2 * MaxCtrlPts - 2, 2 * MaxCtrlPts - 1}

ControlPointInputs ==
    {[i \in 1..n |-> [j \in 1..Dim |-> Sample(i + j)]] : n \in (MaxCtrlPts - 1)..MaxCtrlPts}
WeightInputs ==
    {[i \in 1..n |-> Sample(i + k)] : n \in (MaxCtrlPts - 1)..MaxCtrlPts, k \in 0..1}
KnotInputs == {UniformKnots(n) : n \in (MaxKnots - 1)..MaxKnots}
HomogeneousInputs ==
    {[cp |-> [i \in 1..n |-> [j \in 1..(Dim + 1) |->
                 IF j <= Dim THEN Sample(i + j) ELSE Sample(i + k)]],
      knots |-> UniformKnots(n + Degree + 1 - bad)] :
        n \in (MaxCtrlPts - 1)..MaxCtrlPts, k \in 0..1, bad \in 0..1}

\* One row of initialize()'s matrix: (weight * point, weight).
Lift(point, w) == [j \in 1..(Dim + 1) |-> IF j <= Dim THEN FMul(point[j], w) ELSE w]

\* One row of the projection back: the leading _dim columns over the last.
Project(hp) == VDiv(HeadDim(hp), LastDim(hp))

Column(cp) == [i \in 1..Len(cp) |-> LastDim(cp[i])]
ProjectAll(cp) == [i \in 1..Len(cp) |-> Project(cp[i])]

\* validate_initialization without the comparison with the weight count.
validate_initialization_without_weights(points, weights, knots, hom) ==
    IF ~ValidCurve(points, knots, Degree) THEN "invalid_setting"
    ELSE IF Len(hom.cp) # Len(points) THEN "invalid_setting"
         ELSE "ok"

\* NURBS::validate_initialization: the error it throws, "ok" when none.
validate_initialization(points, weights, knots, hom) ==
    IF ~ValidCurve(points, knots, Degree) THEN "invalid_setting"
    ELSE IF Len(hom.cp) # Len(points) \/ Len(hom.cp) # Len(weights)
         THEN "invalid_setting"
         ELSE "ok"

Validated(c) == validate_initialization(c.points, c.weights, c.knots, c.hom)

\* The engine validates the curve it is asked about.
HomValid(c) ==
    /\ ValidCurve(c.hom.cp, c.hom.knots, Degree)
    /\ Spans(c.hom, Degree) # {}

\* NURBS::evaluate, on the curve c
evaluate(c, t) ==
    IF Validated(c) # "ok" THEN [status |-> Validated(c)]
    ELSE IF ~HomValid(c) THEN [status |-> "invalid_setting"]
    ELSE LET p == BSplineEvaluate(c.hom, Degree, t)
         IN [status |-> "ok", value |-> VDiv(HeadDim(p), LastDim(p))]

\* NURBS::evaluate_derivative, on the curve c
evaluate_derivative(c, t) ==
    IF Validated(c) # "ok" THEN [status |-> Validated(c)]
    ELSE IF ~HomValid(c) THEN [status |-> "invalid_setting"]
    ELSE LET p == BSplineEvaluate(c.hom, Degree, t)
             d == BSplineEvaluateDerivative(c.hom, Degree, t)
         IN [status |-> "ok",
             value |-> VDiv(VSub(HeadDim(d),
                                 VDiv(VScale(LastDim(d), HeadDim(p)), LastDim(p))),
                            LastDim(p))]

\* NURBS::evaluate_2nd_derivative
evaluate_2nd_derivative(c, t) == [status |-> "not_implemented"]

\* NURBS::inverse_evaluate
inverse_evaluate(c, point) == [status |-> "not_implemented"]

NurbsAlive == nurbs_call.status # "abort"

NurbsInit ==
    /\ m_control_points = <<>>
    /\ m_weights = <<>>
    /\ m_knots = <<>>
    /\ m_bspline_homogeneous = [cp |-> <<>>, knots |-> <<>>]
    /\ nurbs_call = [op |-> "NURBS", status |-> "ok"]
    /\ derivations = 0


\* The fields of the curve, as one record.
Curve ==
    [points |-> m_control_points, weights |-> m_weights, knots |-> m_knots,
     hom |-> m_bspline_homogeneous]

\* BSplineBase::set_control_points and set_knots are plain setters.
set_control_points(points) == [Curve EXCEPT !.points = points]
set_knots(knots) == [Curve EXCEPT !.knots = knots]

\* set_weights that also lifts the control points again with the new weights.
set_weights_lifting(weights) ==
    [Curve EXCEPT !.weights = weights,
                  !.hom = [cp |-> [i \in 1..Len(m_control_points) |->
                                      Lift(m_control_points[i],
                                           IF i <= Len(weights) THEN weights[i] ELSE F(1))],
                           knots |-> m_knots]]

\* NURBS::set_weights
set_weights(weights) == [Curve EXCEPT !.weights = weights]

\* NURBS::initialize.  Row i of the matrix reads m_weights[i]; where the
\* weight vector is shorter than the control points that read is out of
\* bounds and yields an arbitrary value, `garbage`.
initialize(garbage) ==
    [Curve EXCEPT !.hom =
        [cp |-> [i \in 1..Len(m_control_points) |->
                    Lift(m_control_points[i],
                         IF i <= Len(m_weights) THEN m_weights[i] ELSE garbage)],
         knots |-> m_knots]]

\* insert_knot that leaves the stored knots as they were.
insert_knot_keeping_knots(t, multiplicity) ==
    LET h == BSplineInsertKnot(m_bspline_homogeneous, Degree, t, multiplicity)
    IN [points |-> ProjectAll(h.cp), weights |-> Column(h.cp),
        knots |-> m_knots, hom |-> h]

\* NURBS::insert_knot, after validation.
insert_knot(t, multiplicity) ==
    LET h == BSplineInsertKnot(m_bspline_homogeneous, Degree, t, multiplicity)
    IN [points |-> ProjectAll(h.cp), weights |-> Column(h.cp),
        knots |-> h.knots, hom |-> h]

\* set_homogeneous that takes the leading columns without dividing them.
set_homogeneous_undivided(homogeneous) ==
    [points |-> [i \in 1..Len(homogeneous.cp) |-> HeadDim(homogeneous.cp[i])],
     weights |-> Column(homogeneous.cp),
     knots |-> homogeneous.knots, hom |-> homogeneous]

\* NURBS::set_homogeneous, before its final validation.
set_homogeneous(homogeneous) ==
    [points |-> ProjectAll(homogeneous.cp), weights |-> Column(homogeneous.cp),
     knots |-> homogeneous.knots, hom |-> homogeneous]

\* The state initialize() leaves: the homogeneous curve is the lift of the
\* control points and weights.
Initialized ==
    /\ Len(m_weights) = Len(m_control_points)
    /\ m_bspline_homogeneous = initialize(Zero).hom

Becomes(c, call) ==
    /\ derivations' = derivations
    /\ m_control_points' = c.points
    /\ m_weights' = c.weights
    /\ m_knots' = c.knots
    /\ m_bspline_homogeneous' = c.hom
    /\ nurbs_call' = call
    /\ UNCHANGED <<ndebug, patchVars>>

\* A call that derives one representation from the other, within the budget.
Derives(c, call) ==
    /\ derivations < MaxDerivations
    /\ derivations' = derivations + 1
    /\ m_control_points' = c.points
    /\ m_weights' = c.weights
    /\ m_knots' = c.knots
    /\ m_bspline_homogeneous' = c.hom
    /\ nurbs_call' = call
    /\ UNCHANGED <<ndebug, patchVars>>

SetControlPoints ==
    /\ NurbsAlive
    /\ \E points \in ControlPointInputs :
          Becomes(set_control_points(points), [op |-> "set_control_points", status |-> "ok"])

SetKnots ==
    /\ NurbsAlive
    /\ \E knots \in KnotInputs :
          Becomes(set_knots(knots), [op |-> "set_knots", status |-> "ok"])

SetWeights ==
    /\ NurbsAlive
    /\ \E weights \in WeightInputs :
          Becomes(set_weights(weights), [op |-> "set_weights", status |-> "ok"])

\* The colwise product of vectors of different lengths is undefined: Eigen
\* aborts where its assertions are compiled in, and reads out of bounds
\* where they are not.
Initialize ==
    /\ NurbsAlive
    /\ IF Len(m_weights) = Len(m_control_points)
       THEN Derives(initialize(Zero), [op |-> "initialize", status |-> "ok"])
       ELSE \/ Becomes(Curve, [op |-> "initialize", status |-> "abort"])
            \/ \E garbage \in Scalars :
                  Derives(initialize(garbage), [op |-> "initialize", status |-> "undefined"])

InsertKnot ==
    /\ NurbsAlive
    /\ \E t \in Params, multiplicity \in 1..MaxInsert :
          LET call == [op |-> "insert_knot"]
          IN IF Validated(Curve) # "ok"
             THEN Becomes(Curve, call @@ [status |-> Validated(Curve)])
             ELSE IF ~HomValid(Curve)
             THEN Becomes(Curve, call @@ [status |-> "invalid_setting"])
             ELSE /\ InDomain(m_bspline_homogeneous, Degree, t)
                  /\ Derives(insert_knot(t, multiplicity), call @@ [status |-> "ok"])

\* set_homogeneous(h) for a curve h of the caller, or for get_homogeneous().
SetHomogeneous ==
    /\ NurbsAlive
    /\ \E h \in HomogeneousInputs \cup {m_bspline_homogeneous} :
          LET c == set_homogeneous(h)
          IN Derives(c, [op |-> "set_homogeneous",
                         own |-> (h = m_bspline_homogeneous),
                         initialized |-> Initialized,
                         before |-> m_control_points,
                         status |-> validate_initialization(c.points, c.weights,
                                                            c.knots, c.hom)])

Evaluate ==
    /\ NurbsAlive
    /\ \E t \in Params :
          Becomes(Curve, [op |-> "evaluate", t |-> t] @@ evaluate(Curve, t))

EvaluateDerivative ==
    /\ NurbsAlive
    /\ \E t \in Params :
          Becomes(Curve, [op |-> "evaluate_derivative", t |-> t] @@ evaluate_derivative(Curve, t))

Evaluate2ndDerivative ==
    /\ NurbsAlive
    /\ \E t \in {Degree + 1} :
          Becomes(Curve, [op |-> "evaluate_2nd_derivative", t |-> t]
                         @@ evaluate_2nd_derivative(Curve, t))

InverseEvaluate ==
    /\ NurbsAlive
    /\ \E x \in {F(5)} :
          LET point == [j \in 1..Dim |-> x]
          IN Becomes(Curve, [op |-> "inverse_evaluate", point |-> point]
                            @@ inverse_evaluate(Curve, point))

NurbsNext ==
    \/ SetControlPoints
    \/ SetKnots
    \/ SetWeights
    \/ Initialize
    \/ InsertKnot
    \/ SetHomogeneous
    \/ Evaluate
    \/ EvaluateDerivative
    \/ Evaluate2ndDerivative
    \/ InverseEvaluate


(***************************************************************************)
(* RevolutionPatch (RevolutionPatch.h).  Coordinates and u are integers in *)
(* units of 1/2; frame entries are integers; v is a number of quarter      *)
(* turns.  Every tolerance TOL of the code is below that resolution.       *)
(***************************************************************************)
\* The null profile; its other fields are never read by the code.
Null == [kind |-> "nullptr", periodic |-> FALSE, num_control_points |-> 0]

FullTurn == 4          \* 2 * M_PI, in quarter turns
MinSamples == 7        \* the floor of the coarse search's sample count
NewtonIterations == 20 \* the iteration budget given to newton_raphson

MaxQuarterTurns == 4   \* largest v bound a setter or a box is given
MaxStep == 1           \* largest Newton step along one axis, in grid units

Dot(a, b) == a[1] * b[1] + a[2] * b[2] + a[3] * b[3]
Cross(a, b) ==
    <<a[2] * b[3] - a[3] * b[2], a[3] * b[1] - a[1] * b[3], a[1] * b[2] - a[2] * b[1]>>
Plus(a, b) == <<a[1] + b[1], a[2] + b[2], a[3] + b[3]>>
Minus(a, b) == <<a[1] - b[1], a[2] - b[2], a[3] - b[3]>>
Times(k, a) == <<k * a[1], k * a[2], k * a[3]>>
Norm2(a) == Dot(a, a)

Cos(v) == CASE v % 4 = 0 -> 1 [] v % 4 = 1 -> 0 [] v % 4 = 2 -> -1 [] OTHER -> 0
Sin(v) == CASE v % 4 = 0 -> 0 [] v % 4 = 1 -> 1 [] v % 4 = 2 -> 0 [] OTHER -> -1

\* The rotation by -v: the sine term with the opposite sign.
RotateBack(v, axis, x) ==
    Plus(Plus(Times(Cos(v), x), Times(-Sin(v), Cross(axis, x))),
         Times((1 - Cos(v)) * Dot(axis, x), axis))

\* Eigen::AngleAxis(v, axis) * x: the matrix cos*I + sin*[axis]x +
\* (1 - cos)*axis*axis^T applied to x; the axis is used as given.
Rotate(v, axis, x) ==
    Plus(Plus(Times(Cos(v), x), Times(Sin(v), Cross(axis, x))),
         Times((1 - Cos(v)) * Dot(axis, x), axis))

\* The profile curves a patch is given: the segment from (1,0,0) to (1,1,0)
\* on [0,1], and a closed periodic polyline around (2,0,0) on [0,4).
Segment == [kind |-> "segment", periodic |-> FALSE, num_control_points |-> 2]
Loop == [kind |-> "loop", periodic |-> TRUE, num_control_points |-> 5]
Profiles == {Segment, Loop}

LoopVertex(i) ==
    CASE i % 4 = 0 -> <<3, 0, 0>> [] i % 4 = 1 -> <<2, 0, 1>>
      [] i % 4 = 2 -> <<1, 0, 0>> [] OTHER -> <<2, 0, -1>>

\* CurveBase::evaluate, evaluate_derivative and evaluate_2nd_derivative of a
\* profile, at u (in halves).
ProfileEvaluate(profile, u) ==
    IF profile.kind = "segment" THEN <<2, u, 0>>
    ELSE LET i == u \div 2
         IN Plus(Times(2, LoopVertex(i)),
                 Times(u % 2, Minus(LoopVertex(i + 1), LoopVertex(i))))

ProfileDerivative(profile, u) ==
    IF profile.kind = "segment" THEN <<0, 2, 0>>
    ELSE Times(2, Minus(LoopVertex((u \div 2) + 1), LoopVertex(u \div 2)))

Profile2ndDerivative(profile, u) == <<0, 0, 0>>

\* assert_valid_profile that accepts the null profile.
assert_valid_profile_unchecked(profile) == "ok"

\* RevolutionPatch::assert_valid_profile: the error it throws, "ok" when none.
assert_valid_profile(profile) ==
    IF profile = Null THEN "invalid_setting" ELSE "ok"

Axis == m_frame[3]

\* The value of a forward query once the profile is known to be set.
\* RevolutionPatch::evaluate
evaluate_uv(u, v) ==
    LET p == ProfileEvaluate(m_profile, u)
    IN Plus(m_location, Rotate(v, Axis, Minus(p, m_location)))

\* RevolutionPatch::evaluate_derivative_u
evaluate_derivative_u(u, v) == Rotate(v, Axis, ProfileDerivative(m_profile, u))

\* A vector of direction dir rescaled to the length whose square is length2
\* (d.normalized() * r); the vector itself when it is zero.
Rescaled(dir, length2) ==
    IF Norm2(dir) > 0 THEN [direction |-> dir, length2 |-> length2]
    ELSE [direction |-> dir, length2 |-> 0]

\* RevolutionPatch::evaluate_derivative_v
evaluate_derivative_v(u, v) ==
    LET p == evaluate_uv(u, v)
        d == Cross(Axis, Minus(p, m_location))
        w == Minus(p, m_location)
    IN Rescaled(d, Norm2(Minus(w, Times(Dot(w, Axis), Axis))))

\* RevolutionPatch::evaluate_2nd_derivative_uu
evaluate_2nd_derivative_uu(u, v) == Rotate(v, Axis, Profile2ndDerivative(m_profile, u))

\* RevolutionPatch::evaluate_2nd_derivative_vv
evaluate_2nd_derivative_vv(u, v) ==
    LET d == Minus(evaluate_uv(u, v), m_location)
    IN Plus(Times(-1, d), Times(Dot(d, Axis), Axis))

\* RevolutionPatch::evaluate_2nd_derivative_uv
evaluate_2nd_derivative_uv(u, v) ==
    LET du == evaluate_derivative_u(u, v)
        duv == Cross(Axis, du)
    IN Rescaled(duv, Norm2(Minus(duv, Times(Dot(duv, Axis), Axis))))

ForwardQueries ==
    {"evaluate", "evaluate_derivative_u", "evaluate_derivative_v",
     "evaluate_2nd_derivative_uu", "evaluate_2nd_derivative_vv",
     "evaluate_2nd_derivative_uv"}

\* A forward query: the profile check first, the value after it.
forward(query, u, v) ==
    IF assert_valid_profile(m_profile) # "ok"
    THEN [status |-> assert_valid_profile(m_profile)]
    ELSE [status |-> "ok",
          value |-> CASE query = "evaluate" -> evaluate_uv(u, v)
                      [] query = "evaluate_derivative_u" -> evaluate_derivative_u(u, v)
                      [] query = "evaluate_derivative_v" -> evaluate_derivative_v(u, v)
                      [] query = "evaluate_2nd_derivative_uu" -> evaluate_2nd_derivative_uu(u, v)
                      [] query = "evaluate_2nd_derivative_vv" -> evaluate_2nd_derivative_vv(u, v)
                      [] OTHER -> evaluate_2nd_derivative_uv(u, v)]


\* The frame checks of initialize(): unit rows, pairwise orthogonal.
FrameOrthonormal(frame) ==
    /\ Norm2(frame[1]) - 1 = 0
    /\ Norm2(frame[2]) - 1 = 0
    /\ Norm2(frame[3]) - 1 = 0
    /\ Dot(frame[1], frame[2]) = 0
    /\ Dot(frame[2], frame[3]) = 0
    /\ Dot(frame[3], frame[1]) = 0

\* The bound checks of initialize().
BoundsOrdered == m_u_upper > m_u_lower /\ m_v_upper > m_v_lower

\* RevolutionPatch::initialize: its outcome and the periodic flags it leaves.
\* Its assert()s abort the process where they are compiled in and are no
\* code at all under NDEBUG.
patch_initialize ==
    IF assert_valid_profile(m_profile) # "ok"
    THEN [status |-> assert_valid_profile(m_profile),
          periodic_u |-> m_periodic_u, periodic_v |-> m_periodic_v]
    ELSE IF ~ndebug /\ ~(FrameOrthonormal(m_frame) /\ BoundsOrdered)
    THEN [status |-> "abort", periodic_u |-> m_periodic_u, periodic_v |-> m_periodic_v]
    ELSE [status |-> "ok",
          periodic_u |-> m_profile.periodic,
          periodic_v |-> IF m_v_upper - m_v_lower >= FullTurn THEN TRUE ELSE m_periodic_v]

(***************************************************************************)
(* The inverse solver of PatchBase, on the grid: the coarse search returns *)
(* a sample nearest to the point; each Newton step moves the iterate by at *)
(* most MaxStep along each axis and is then fitted to the box.             *)
(***************************************************************************)
Clamp(x, lo, hi) == IF x < lo THEN lo ELSE IF x > hi THEN hi ELSE x
Wrap(x, lo, hi) == IF hi = lo THEN lo ELSE lo + ((x - lo) % (hi - lo))
Fit(x, lo, hi, periodic) == IF periodic THEN Wrap(x, lo, hi) ELSE Clamp(x, lo, hi)

SampleGrid(lo, hi, n) == {lo + ((i * (hi - lo)) \div n) : i \in 0..n}

\* PatchBase::approximate_inverse_evaluate: the samples nearest to the point.
approximate_inverse_evaluate(point, num_samples, min_u, max_u, min_v, max_v) ==
    LET samples == SampleGrid(min_u, max_u, num_samples)
                     \X SampleGrid(min_v, max_v, num_samples)
        dist == [uv \in samples |-> Norm2(Minus(evaluate_uv(uv[1], uv[2]), point))]
    IN {uv \in samples : \A other \in samples : dist[uv] <= dist[other]}

\* The iterates one axis can reach in at most k steps from the set S.
RECURSIVE Iterates(_, _, _, _, _)
Iterates(S, k, lo, hi, periodic) ==
    LET next == S \cup {Fit(x + d, lo, hi, periodic) : x \in S, d \in (-MaxStep)..MaxStep}
    IN IF k = 0 \/ next = S THEN S ELSE Iterates(next, k - 1, lo, hi, periodic)

\* PatchBase::newton_raphson: the iterate it may return.
newton_raphson(uv, num_iterations, min_u, max_u, min_v, max_v) ==
    Iterates({uv[1]}, num_iterations, min_u, max_u, m_periodic_u)
      \X Iterates({uv[2]}, num_iterations, min_v, max_v, m_periodic_v)

Max(a, b) == IF a >= b THEN a ELSE b

\* inverse_evaluate that hands newton_raphson the u bounds for both axes.
patch_inverse_evaluate_u_bounds(point, min_u, max_u, min_v, max_v) ==
    IF assert_valid_profile(m_profile) # "ok"
    THEN {[status |-> assert_valid_profile(m_profile)]}
    ELSE LET num_samples == Max(m_profile.num_control_points, MinSamples) + 1
             seeds == approximate_inverse_evaluate(point, num_samples,
                                                   min_u, max_u, min_v, max_v)
             found == UNION {newton_raphson(uv, NewtonIterations,
                                            min_u, max_u, min_u, max_u) : uv \in seeds}
             inside(uv) == /\ uv[1] >= min_u /\ uv[1] <= max_u
                           /\ uv[2] >= min_v /\ uv[2] <= max_v
         IN {IF inside(uv) \/ ndebug
             THEN [status |-> "ok", value |-> uv]
             ELSE [status |-> "abort"] : uv \in found}

\* RevolutionPatch::inverse_evaluate: the outcomes of one call.
patch_inverse_evaluate(point, min_u, max_u, min_v, max_v) ==
    IF assert_valid_profile(m_profile) # "ok"
    THEN {[status |-> assert_valid_profile(m_profile)]}
    ELSE LET num_samples == Max(m_profile.num_control_points, MinSamples) + 1
             seeds == approximate_inverse_evaluate(point, num_samples,
                                                   min_u, max_u, min_v, max_v)
             found == UNION {newton_raphson(uv, NewtonIterations,
                                            min_u, max_u, min_v, max_v) : uv \in seeds}
             inside(uv) == /\ uv[1] >= min_u /\ uv[1] <= max_u
                           /\ uv[2] >= min_v /\ uv[2] <= max_v
         IN {IF inside(uv) \/ ndebug
             THEN [status |-> "ok", value |-> uv]
             ELSE [status |-> "abort"] : uv \in found}

\* The accessors of the weight, knot and control-point surface.
CountAccessors ==
    {"get_num_weights_u", "get_num_weights_v", "get_num_knots_u", "get_num_knots_v",
     "num_control_points_u", "num_control_points_v"}
IndexedAccessors ==
    {"get_weight", "set_weight", "get_knot_u", "set_knot_u", "get_knot_v", "set_knot_v",
     "get_control_point_preimage"}

\* get_num_weights_u/v, get_num_knots_u/v, num_control_points_u/v
count_accessor(name) == [status |-> "ok", value |-> 0]

\* An indexed accessor that returns a degenerate value instead of throwing.
indexed_accessor_degenerate(name) == [status |-> "ok", value |-> 0]

\* get_weight, set_weight, get_knot_u/v, set_knot_u/v, get_control_point_preimage
indexed_accessor(name) == [status |-> "not_implemented"]


\* The values the patch's setters and queries are given.
Identity == << <<1, 0, 0>>, <<0, 1, 0>>, <<0, 0, 1>> >>
FrameInputs ==
    {Identity,
     << <<2, 0, 0>>, <<0, 1, 0>>, <<0, 0, 1>> >>,    \* row 0 not of unit length
     << <<1, 0, 0>>, <<1, 0, 0>>, <<0, 0, 1>> >>}    \* rows 0 and 1 not orthogonal
LocationInputs == {<<0, 0, 0>>, <<0, 0, 2>>}
UInputs == {0, 2}
VInputs == {MaxQuarterTurns - 2, MaxQuarterTurns}
UParams == {1}
VParams == {1}
PointInputs == {<<-1, 2, 0>>}
BoxInputs ==
    {<<0, 2, 0, MaxQuarterTurns - 2>>, <<0, 1, 1, 2>>, <<2, 2, 0, 0>>}

PatchAlive == patch_call.status # "abort"

\* The constructor, and the defaults of the members.
PatchInit ==
    /\ m_location = <<0, 0, 0>>
    /\ m_frame = Identity
    /\ m_profile = Null
    /\ m_u_lower = 0
    /\ m_u_upper = 2
    /\ m_v_lower = 0
    /\ m_v_upper = FullTurn
    /\ m_periodic_u = FALSE
    /\ m_periodic_v = FALSE
    /\ patch_call = [op |-> "RevolutionPatch", status |-> "ok"]

\* A call that changes nothing but what it names.
Returns(call) ==
    /\ patch_call' = call
    /\ UNCHANGED <<ndebug, nurbsVars>>

set_location ==
    /\ PatchAlive
    /\ \E p \in LocationInputs : m_location' = p
    /\ Returns([op |-> "set_location", status |-> "ok"])
    /\ UNCHANGED <<m_frame, m_profile, m_u_lower, m_u_upper, m_v_lower, m_v_upper,
                   m_periodic_u, m_periodic_v>>

set_frame ==
    /\ PatchAlive
    /\ \E f \in FrameInputs : m_frame' = f
    /\ Returns([op |-> "set_frame", status |-> "ok"])
    /\ UNCHANGED <<m_location, m_profile, m_u_lower, m_u_upper, m_v_lower, m_v_upper,
                   m_periodic_u, m_periodic_v>>

set_profile ==
    /\ PatchAlive
    /\ \E profile \in Profiles \cup {Null} : m_profile' = profile
    /\ Returns([op |-> "set_profile", status |-> "ok"])
    /\ UNCHANGED <<m_location, m_frame, m_u_lower, m_u_upper, m_v_lower, m_v_upper,
                   m_periodic_u, m_periodic_v>>

set_u_lower_bound ==
    /\ PatchAlive
    /\ \E t \in UInputs : m_u_lower' = t
    /\ Returns([op |-> "set_u_lower_bound", status |-> "ok"])
    /\ UNCHANGED <<m_location, m_frame, m_profile, m_u_upper, m_v_lower, m_v_upper,
                   m_periodic_u, m_periodic_v>>

set_u_upper_bound ==
    /\ PatchAlive
    /\ \E t \in UInputs : m_u_upper' = t
    /\ Returns([op |-> "set_u_upper_bound", status |-> "ok"])
    /\ UNCHANGED <<m_location, m_frame, m_profile, m_u_lower, m_v_lower, m_v_upper,
                   m_periodic_u, m_periodic_v>>

set_v_lower_bound ==
    /\ PatchAlive
    /\ \E t \in VInputs : m_v_lower' = t
    /\ Returns([op |-> "set_v_lower_bound", status |-> "ok"])
    /\ UNCHANGED <<m_location, m_frame, m_profile, m_u_lower, m_u_upper, m_v_upper,
                   m_periodic_u, m_periodic_v>>

set_v_upper_bound ==
    /\ PatchAlive
    /\ \E t \in VInputs : m_v_upper' = t
    /\ Returns([op |-> "set_v_upper_bound", status |-> "ok"])
    /\ UNCHANGED <<m_location, m_frame, m_profile, m_u_lower, m_u_upper, m_v_lower,
                   m_periodic_u, m_periodic_v>>

PatchInitialize ==
    /\ PatchAlive
    /\ m_periodic_u' = patch_initialize.periodic_u
    /\ m_periodic_v' = patch_initialize.periodic_v
    /\ Returns([op |-> "initialize", status |-> patch_initialize.status])
    /\ UNCHANGED <<m_location, m_frame, m_profile, m_u_lower, m_u_upper, m_v_lower,
                   m_v_upper>>

\* A const member function: the outcome is all it leaves.
Const(call) ==
    /\ Returns(call)
    /\ UNCHANGED <<m_location, m_frame, m_profile, m_u_lower, m_u_upper, m_v_lower,
                   m_v_upper, m_periodic_u, m_periodic_v>>

PatchEvaluate ==
    /\ PatchAlive
    /\ \E u \in UParams, v \in VParams :
          Const([op |-> "evaluate", u |-> u, v |-> v] @@ forward("evaluate", u, v))

PatchEvaluateDerivativeU ==
    /\ PatchAlive
    /\ \E u \in UParams, v \in VParams :
          Const([op |-> "evaluate_derivative_u", u |-> u, v |-> v] @@ forward("evaluate_derivative_u", u, v))

PatchEvaluateDerivativeV ==
    /\ PatchAlive
    /\ \E u \in UParams, v \in VParams :
          Const([op |-> "evaluate_derivative_v", u |-> u, v |-> v] @@ forward("evaluate_derivative_v", u, v))

PatchEvaluate2ndDerivativeUU ==
    /\ PatchAlive
    /\ \E u \in UParams, v \in VParams :
          Const([op |-> "evaluate_2nd_derivative_uu", u |-> u, v |-> v] @@ forward("evaluate_2nd_derivative_uu", u, v))

PatchEvaluate2ndDerivativeVV ==
    /\ PatchAlive
    /\ \E u \in UParams, v \in VParams :
          Const([op |-> "evaluate_2nd_derivative_vv", u |-> u, v |-> v] @@ forward("evaluate_2nd_derivative_vv", u, v))

PatchEvaluate2ndDerivativeUV ==
    /\ PatchAlive
    /\ \E u \in UParams, v \in VParams :
          Const([op |-> "evaluate_2nd_derivative_uv", u |-> u, v |-> v] @@ forward("evaluate_2nd_derivative_uv", u, v))

PatchInverseEvaluate ==
    /\ PatchAlive
    /\ \E point \in PointInputs, box \in BoxInputs :
          \E outcome \in patch_inverse_evaluate(point, box[1], box[2], box[3], box[4]) :
             Const([op |-> "inverse_evaluate", point |-> point, box |-> box] @@ outcome)

CountAccessor ==
    /\ PatchAlive
    /\ \E name \in CountAccessors : Const([op |-> name] @@ count_accessor(name))

\* set_weight and set_knot_u/v throw before they write anything.
IndexedAccessor ==
    /\ PatchAlive
    /\ \E name \in IndexedAccessors : Const([op |-> name] @@ indexed_accessor(name))

PatchNext ==
    \/ set_location
    \/ set_frame
    \/ set_profile
    \/ set_u_lower_bound
    \/ set_u_upper_bound
    \/ set_v_lower_bound
    \/ set_v_upper_bound
    \/ PatchInitialize
    \/ PatchEvaluate
    \/ PatchEvaluateDerivativeU
    \/ PatchEvaluateDerivativeV
    \/ PatchEvaluate2ndDerivativeUU
    \/ PatchEvaluate2ndDerivativeVV
    \/ PatchEvaluate2ndDerivativeUV
    \/ PatchInverseEvaluate
    \/ CountAccessor
    \/ IndexedAccessor

(***************************************************************************)
(* Specifications: one object of each class, used on its own.              *)
(***************************************************************************)
Init == ndebug = FALSE /\ NurbsInit /\ PatchInit
Next == NurbsNext
Spec == Init /\ [][Next]_vars

InitPatch == ndebug \in BOOLEAN /\ NurbsInit /\ PatchInit
SpecPatch == InitPatch /\ [][PatchNext]_vars


(***************************************************************************)
(* Properties of the NURBS curve.                                          *)
(***************************************************************************)
NurbsQueries ==
    {"evaluate", "evaluate_derivative", "evaluate_2nd_derivative", "inverse_evaluate"}

\* The cached homogeneous curve does not match the current counts.
CountMismatch ==
    \/ Len(m_bspline_homogeneous.cp) # Len(m_control_points)
    \/ Len(m_bspline_homogeneous.cp) # Len(m_weights)

\* C1, as stated: with the homogeneous control-point count different from
\* the control-point count or the weight count, every forward or inverse
\* query fails with an invalid-configuration error.
C1_EveryQueryInvalidSetting ==
    (nurbs_call.op \in NurbsQueries /\ CountMismatch)
        => nurbs_call.status = "invalid_setting"

\* C1, amended: with such a mismatch evaluate and evaluate_derivative fail
\* with an invalid-configuration error; evaluate_2nd_derivative and
\* inverse_evaluate fail with a not-implemented error in every state.
C1_ValidatedQueriesInvalidSetting ==
    /\ (nurbs_call.op \in {"evaluate", "evaluate_derivative"} /\ CountMismatch)
          => nurbs_call.status = "invalid_setting"
    /\ nurbs_call.op \in {"evaluate_2nd_derivative", "inverse_evaluate"}
          => nurbs_call.status = "not_implemented"

\* evaluate fails on a curve whose counts of control points and knots are
\* those of a valid curve, for the stale homogeneous curve alone.
C1_Witness ==
    /\ nurbs_call.op = "evaluate"
    /\ nurbs_call.status = "invalid_setting"
    /\ ValidCurve(m_control_points, m_knots, Degree)
    /\ Len(m_bspline_homogeneous.cp) = Len(m_control_points)
    /\ Len(m_bspline_homogeneous.cp) # Len(m_weights)

\* Stored control points, weights and knots are those of the homogeneous curve.
Consistent ==
    /\ m_weights = Column(m_bspline_homogeneous.cp)
    /\ Len(m_control_points) = Len(m_bspline_homogeneous.cp)
    /\ \A i \in 1..Len(m_control_points) :
          m_control_points[i] = VDiv(HeadDim(m_bspline_homogeneous.cp[i]), m_weights[i])
    /\ m_knots = m_bspline_homogeneous.knots
    /\ Len(m_weights) = Len(m_control_points)

\* C2: after every successful insert_knot and every successful
\* set_homogeneous the weights are the last homogeneous column, each control
\* point is the leading homogeneous coordinates over its weight, the knots
\* are the homogeneous knots, and the three counts are equal.
C2_ConsistentAfterInsertKnot ==
    (nurbs_call.op \in {"insert_knot", "set_homogeneous"} /\ nurbs_call.status = "ok")
        => Consistent

\* A knot was inserted into a curve and changed its control-point count.
C2_Witness ==
    /\ nurbs_call.op = "insert_knot"
    /\ nurbs_call.status = "ok"
    /\ Len(m_control_points) > MaxCtrlPts

\* b is within two roundings of a: |a - b| <= |a| * 2^(1 - MantissaBits).
Within(a, b) ==
    /\ a # NaN
    /\ b # NaN
    /\ LET e == IF a[2] <= b[2] THEN a[2] ELSE b[2]
           x == a[1] * Pow2(a[2] - e)
           y == b[1] * Pow2(b[2] - e)
       IN Abs(x - y) * Pow2(MantissaBits - 1) <= Abs(x)

PositiveWeights == \A i \in 1..Len(m_weights) : m_weights[i][1] > 0

\* C3, as stated: on an initialized curve with positive weights
\* set_homogeneous(get_homogeneous()) leaves control points and weights
\* equal to what they were; and initialize() after set_homogeneous(h) leaves
\* the homogeneous control points equal to those of h.
C3_RoundTripExact ==
    [][/\ (Initialized /\ PositiveWeights
            /\ nurbs_call'.op = "set_homogeneous" /\ nurbs_call'.own)
          => (m_weights' = m_weights /\ m_control_points' = m_control_points)
       /\ (nurbs_call.op = "set_homogeneous"
            /\ nurbs_call'.op = "initialize" /\ nurbs_call'.status = "ok")
          => m_bspline_homogeneous'.cp = m_bspline_homogeneous.cp]_vars

\* C3, amended: the round trip reproduces the weights exactly and every
\* control-point coordinate within two roundings (a relative error of at
\* most 2^(1 - MantissaBits)); and so for the homogeneous control points in
\* the other direction, whose weight column is reproduced exactly.
C3_RoundTripWithinTolerance ==
    [][/\ (Initialized /\ PositiveWeights
            /\ nurbs_call'.op = "set_homogeneous" /\ nurbs_call'.own)
          => /\ m_weights' = m_weights
             /\ Len(m_control_points') = Len(m_control_points)
             /\ \A i \in 1..Len(m_control_points) : \A j \in 1..Dim :
                   Within(m_control_points[i][j], m_control_points'[i][j])
       /\ (nurbs_call.op = "set_homogeneous"
            /\ nurbs_call'.op = "initialize" /\ nurbs_call'.status = "ok")
          => /\ Column(m_bspline_homogeneous'.cp) = Column(m_bspline_homogeneous.cp)
             /\ \A i \in 1..Len(m_bspline_homogeneous.cp) : \A j \in 1..Dim :
                   Within(m_bspline_homogeneous.cp[i][j],
                          m_bspline_homogeneous'.cp[i][j])]_vars

\* set_homogeneous(get_homogeneous()) on an initialized curve has left
\* control points that differ from those before the call: a product was
\* rounded and the quotient did not undo it.
C3_Witness ==
    /\ nurbs_call.op = "set_homogeneous"
    /\ nurbs_call.own
    /\ nurbs_call.initialized
    /\ nurbs_call.status = "ok"
    /\ nurbs_call.before # m_control_points

CurveAfter ==
    [points |-> m_control_points', weights |-> m_weights', knots |-> m_knots',
     hom |-> m_bspline_homogeneous']

\* C10: set_weights changes the weight vector alone; with a weight vector
\* of the same length, evaluate and evaluate_derivative then return what
\* they returned before the call, errors included.
C10_SetWeightsLeavesHomogeneous ==
    [][nurbs_call'.op = "set_weights"
        => /\ m_control_points' = m_control_points
           /\ m_knots' = m_knots
           /\ m_bspline_homogeneous' = m_bspline_homogeneous
           /\ Len(m_weights') = Len(m_weights)
                => \A t \in Params :
                      /\ evaluate(CurveAfter, t) = evaluate(Curve, t)
                      /\ evaluate_derivative(CurveAfter, t)
                            = evaluate_derivative(Curve, t)]_vars

\* evaluate returns a value while the weights differ from the weight column
\* of the homogeneous curve it is computed from.
C10_Witness ==
    /\ nurbs_call.op = "evaluate"
    /\ nurbs_call.status = "ok"
    /\ Len(m_weights) = Len(m_bspline_homogeneous.cp)
    /\ m_weights # Column(m_bspline_homogeneous.cp)


(***************************************************************************)
(* Properties of the revolution patch.                                     *)
(***************************************************************************)
\* C4: with a null profile every forward query, inverse_evaluate and
\* initialize() fail with an invalid-configuration error, whatever the
\* frame, location and bounds; with a profile set, forward queries return a
\* value whether or not initialize() has run.
C4_ProfileChecked ==
    /\ (m_profile = Null
          /\ patch_call.op \in ForwardQueries \cup {"inverse_evaluate", "initialize"})
        => patch_call.status = "invalid_setting"
    /\ (m_profile # Null /\ patch_call.op \in ForwardQueries)
        => patch_call.status = "ok"

\* evaluate returns a value on a patch whose u-periodic flag is not that of
\* its profile: initialize() has not run since the profile was set.
C4_Witness ==
    /\ patch_call.op = "evaluate"
    /\ patch_call.status = "ok"
    /\ m_profile = Loop
    /\ ~m_periodic_u
    /\ ~FrameOrthonormal(m_frame)

\* C5: initialize() on a patch with a profile and a frame that is not
\* orthonormal, or bounds that are inverted or empty, fails with an
\* invalid-configuration error.
C5_InitializeRejectsFrameAndBounds ==
    (patch_call.op = "initialize" /\ m_profile # Null
       /\ ~(FrameOrthonormal(m_frame) /\ BoundsOrdered))
        => patch_call.status = "invalid_setting"

Accessors == CountAccessors \cup IndexedAccessors

PatchFields ==
    <<m_location, m_frame, m_profile, m_u_lower, m_u_upper, m_v_lower, m_v_upper,
      m_periodic_u, m_periodic_v>>

\* C6, as stated: every accessor of the weight, knot and control-point
\* surface fails with a not-implemented error and leaves the patch as it was.
C6_EveryAccessorNotImplemented ==
    [][patch_call'.op \in Accessors
        => (patch_call'.status = "not_implemented" /\ PatchFields' = PatchFields)]_vars

\* C6, amended: get_weight, set_weight, get_knot_u/v, set_knot_u/v and
\* get_control_point_preimage fail with a not-implemented error; the count
\* accessors get_num_weights_u/v, get_num_knots_u/v and
\* num_control_points_u/v return 0; none changes the patch.
C6_IndexedAccessorsNotImplemented ==
    [][/\ patch_call'.op \in IndexedAccessors
            => patch_call'.status = "not_implemented"
       /\ patch_call'.op \in CountAccessors
            => (patch_call'.status = "ok" /\ patch_call'.value = 0)
       /\ patch_call'.op \in Accessors => PatchFields' = PatchFields]_vars

\* set_weight has thrown on a patch that has a profile and was initialized.
C6_Witness ==
    /\ patch_call.op = "set_weight"
    /\ patch_call.status = "not_implemented"
    /\ m_profile # Null
    /\ m_periodic_v

\* C7: inverse_evaluate on a patch with a profile, for a box with
\* min_u <= max_u and min_v <= max_v, returns (u, v) inside the box.
C7_InverseInsideBox ==
    (patch_call.op = "inverse_evaluate" /\ m_profile # Null)
        => /\ patch_call.status = "ok"
           /\ patch_call.box[1] <= patch_call.value[1]
           /\ patch_call.value[1] <= patch_call.box[2]
           /\ patch_call.box[3] <= patch_call.value[2]
           /\ patch_call.value[2] <= patch_call.box[4]

\* inverse_evaluate has returned the lower corner of a box that lies inside
\* the domain of a patch periodic in v.
C7_Witness ==
    /\ patch_call.op = "inverse_evaluate"
    /\ patch_call.status = "ok"
    /\ m_periodic_v
    /\ patch_call.box[3] > m_v_lower
    /\ patch_call.box[3] < patch_call.box[4]
    /\ patch_call.value = <<patch_call.box[1], patch_call.box[3]>>

\* The scenario of C8: identity frame, zero location, the segment profile,
\* evaluate at u = 1/2 and v = a quarter turn.
C8_Scenario ==
    /\ m_frame = Identity
    /\ m_location = <<0, 0, 0>>
    /\ m_profile = Segment
    /\ patch_call.op = "evaluate"
    /\ patch_call.u = 1
    /\ patch_call.v = 1

\* C8, as stated: the scenario yields the point (0, 0.5, 1).
C8_YieldsStatedPoint ==
    C8_Scenario => (patch_call.status = "ok" /\ patch_call.value = <<0, 1, 2>>)

\* C8, amended: the scenario yields (-0.5, 1, 0), the point (1, 0.5, 0)
\* turned by a quarter turn about the z axis.
C8_YieldsRotatedPoint ==
    C8_Scenario => (patch_call.status = "ok" /\ patch_call.value = <<-1, 2, 0>>)

C8_Witness == C8_Scenario /\ patch_call.status = "ok"

\* C9: right after each successful initialize() the patch is periodic in v
\* exactly if its v span covers a full turn, and periodic in u exactly if
\* its profile is.
C9_PeriodicFlagsCurrent ==
    (patch_call.op = "initialize" /\ patch_call.status = "ok")
        => /\ m_periodic_v <=> (m_v_upper - m_v_lower >= FullTurn)
           /\ m_periodic_u <=> m_profile.periodic

====
